---------------------------- MODULE Spec2Model ----------------------------
(***************************************************************************)
(* A model of the event-sourcing library: the Kafka stream consumer        *)
(* (event-stream-kafka/src/lib.rs), the EventStore of the Cassandra crate  *)
(* (event-store-cassandra/src/event/store.rs), the aggregate fold          *)
(* (event-sourcing/src/aggregate.rs, snapshot/envelope.rs tests), the      *)
(* envelopes as JSON text (event/envelope.rs, snapshot/envelope.rs), and   *)
(* the CommandHandler and the snapshot reconstruction the traits stand     *)
(* for (command_handler.rs, snapshot/store.rs, event/store.rs).            *)
(***************************************************************************)
EXTENDS Integers, Sequences, FiniteSets, TLC

(***************************************************************************)
(* Bounds of the model.                                                    *)
(***************************************************************************)
\* Number of messages published to every partition of the topic.
LogLen == 3
\* Number of failures (connect, poll, deserialize, apply, consume, commit)
\* the environment may inject in one behaviour.
MaxFailures == 2

\* Longest event list folded into an aggregate.
MaxLen == 3
\* Width in bits of the model's signed integers, standing for i64.
IntBits == 4

\* VersionConflicts after which a CommandHandler retries its cycle; the
\* next one makes it give up.
MaxRetries == 2
\* Number of events other writers append to the handler's aggregate.
MaxWrites == 4

\* Longest string carried by a field of an envelope.
MaxStrLen == 2

\* Largest envelope version a caller of the store uses.
MaxVersion == 1

\* Fixed::from_millis(1000): the delay of retry between two attempts.
FixedDelayMs == 1000

\* The partitions of the subscribed topic.
Partitions == {"p0", "p1"}

\* The offsets of the messages of one partition.
Offsets == 0 .. (LogLen - 1)

VARIABLES
    \* ---- broker ----
    committed,       \* group offset per partition: the next offset to read
    \* ---- KafkaEventStream::on_event / start_consumer ----
    pc,              \* position of the consumer in on_event / start_consumer
    consumer,        \* the Consumer handle, or NoConsumer
    message_sets,    \* the MessageSets of the last poll
    msIdx,           \* index of the message set being iterated
    mIdx,            \* index of the message being iterated in that set
    failures,        \* failures injected so far
    lastError,       \* which step produced the Err the retry loop absorbed
    slept,           \* milliseconds retry has slept since that Err
    \* ---- history (observations, never read by the consumer) ----
    applied,         \* per partition, offsets for which apply returned Ok
    failedBatch,     \* the messages of the batch a deserialize or apply
                     \* failure aborted, until the step after the next poll
    committedAtPoll  \* the group offsets when the current batch was polled

VARIABLES
    \* ---- tasks calling the EventStore ----
    task,            \* per task, its call of the store and the outcome
    persisted        \* <<aggregate_id, version>> of the envelopes for which
                     \* persist returned Ok (history)

storeVars == <<task, persisted>>

\* Versions the callers of the store use go up to MaxVersion.
Versions == 0 .. MaxVersion
AggregateIds == {"a", "b"}
Tasks == {"t1", "t2"}

\* A task that is not calling the store.
Idle == [state |-> "idle", op |-> "none", aggregate_id |-> "", version |-> 0,
         existed |-> FALSE,
         result |-> [kind |-> "None", value |-> <<>>, message |-> ""]]

VARIABLES
    \* ---- a caller folding events into a TestAggregate ----
    events,          \* the ordered event list built so far
    foldState,       \* apply folded over events from None, one event at a time
    failedAt,        \* index of the event on which that fold got Err (0: none)
    failError,       \* the error apply returned there
    runs,            \* the outcomes of the calls of apply_all(events) so far
    overflow_checks, \* the build panics on integer overflow (debug profile)
    rejects          \* amounts the implementor's apply rejects with Err

aggregateVars == <<events, foldState, failedAt, failError, runs,
                   overflow_checks, rejects>>

VARIABLES
    \* ---- the caller of on_event ----
    cancel_requested \* the caller has asked the consumer to stop

cancelVars == <<cancel_requested>>

VARIABLES
    \* ---- a CommandHandler and the stream of the aggregate it writes ----
    next_version,    \* the next expected version of the aggregate's stream
    other_writes,    \* appends by other writers so far
    command,         \* the command handle was called with
    hpc,             \* position of handle in its load-validate-persist cycle
    expected,        \* the version handle loaded and will persist at
    conflicts,       \* VersionConflicts persist returned to this handle call
    handle_result    \* what handle returned

handlerVars == <<next_version, other_writes, command, hpc, expected,
                 conflicts, handle_result>>

VARIABLES
    \* ---- a caller rebuilding an aggregate from a snapshot ----
    snapshot,        \* the latest snapshot of the aggregate, or NoSnapshot
    rebuilt          \* the outcome of the caller's reconstruction

snapshotVars == <<snapshot, rebuilt>>

VARIABLES
    \* ---- envelopes on their way through serialize and deserialize ----
    envelope,        \* the EventEnvelope or SnapshotEnvelope a caller holds
    payload,         \* serialize(&envelope), or NoText
    decoded,         \* deserialize(payload), or NotRun
    delivered        \* what the consumer's apply was called with for a
                     \* message whose value is payload, or NotRun

serdeVars == <<envelope, payload, decoded, delivered>>

\* The variables of the components modelled further down.
moreVars == <<cancelVars, handlerVars, snapshotVars, serdeVars>>

consumerVars == <<committed, pc, consumer, message_sets, msIdx, mIdx, failures,
                  lastError, slept, applied, failedBatch, committedAtPoll>>

vars == <<consumerVars, storeVars, aggregateVars, moreVars>>

(***************************************************************************)
(* The broker, as the consumer sees it.                                    *)
(***************************************************************************)
\* No offset is stored for the group yet.
NoOffset == -1
\* FetchOffset::Earliest: the first offset of a partition's log.
EarliestOffset == 0
\* The entry of consumed_offsets of a partition with nothing to commit.
NotDirty == -1

NoConsumer == [fetch_offsets |-> <<>>, consumed_offsets |-> <<>>]

\* An ascending run of offsets from..(to-1), as a sequence.
Range(from, to) == [i \in 1 .. (to - from) |-> from + i - 1]

\* The orders in which the message sets of the partitions S can be iterated.
Orders(S) ==
    { o \in [1 .. Cardinality(S) -> S] :
        \A i, j \in 1 .. Cardinality(S) : i # j => o[i] # o[j] }

MessagesReversed(message_set) ==
    [i \in DOMAIN message_set.messages |->
        message_set.messages[Len(message_set.messages) + 1 - i]]

\* MessageSet::messages(): the messages of a set in the order of the log.
Messages(message_set) == message_set.messages

\* The messages <<partition, offset>> held by a batch.
BatchMessages(sets) ==
    UNION { { <<sets[i].partition, sets[i].messages[j]>> :
                j \in DOMAIN sets[i].messages } : i \in DOMAIN sets }

\* A consumer built with with_fallback_offset(FetchOffset::Latest): without
\* a committed offset it starts after the last published message.
StartOffsetsLatest ==
    [p \in Partitions |->
        IF committed[p] = NoOffset THEN LogLen ELSE committed[p]]

\* with_fallback_offset(FetchOffset::Earliest) + GroupOffsetStorage::Kafka:
\* a new handle reads from the group's committed offset, earliest if none.
StartOffsets ==
    [p \in Partitions |->
        IF committed[p] = NoOffset THEN EarliestOffset ELSE committed[p]]

ConsumerInit ==
    /\ committed = [p \in Partitions |-> NoOffset]
    /\ pc = "connect"
    /\ consumer = NoConsumer
    /\ message_sets = <<>>
    /\ msIdx = 0
    /\ mIdx = 0
    /\ failures = 0
    /\ lastError = "none"
    /\ slept = 0
    /\ applied = [p \in Partitions |-> {}]
    /\ failedBatch = {}
    /\ committedAtPoll = [p \in Partitions |-> NoOffset]

\* A bug that logs an Err of the loop body and goes on polling with the same
\* handle, without leaving start_consumer.
FailResume(kind) ==
    /\ failures < MaxFailures
    /\ failures' = failures + 1
    /\ lastError' = kind
    /\ slept' = 0
    /\ pc' = IF kind = "connect" THEN "delay" ELSE "poll"
    /\ consumer' = consumer
    /\ message_sets' = <<>>
    /\ msIdx' = 0
    /\ mIdx' = 0

\* An Err leaves start_consumer (or the closure of retry): the handle is
\* dropped with everything it held, and retry waits before the next attempt.
Fail(kind) ==
    /\ failures < MaxFailures
    /\ failures' = failures + 1
    /\ lastError' = kind
    /\ slept' = 0
    /\ pc' = "delay"
    /\ consumer' = NoConsumer
    /\ message_sets' = <<>>
    /\ msIdx' = 0
    /\ mIdx' = 0

\* The message set and the message the for loops of start_consumer are at.
CurrentSet == message_sets[msIdx]
CurrentPartition == CurrentSet.partition
CurrentOffset == Messages(CurrentSet)[mIdx]

\* Every message of partition p below offset o has been applied with Ok.
AppliedBefore(p, o) == \A k \in 0 .. (o - 1) : k \in applied[p]

\* The for loop over message_set.messages() moves on, or reaches
\* consume_messageset after the last message of the set.
NextMessage ==
    IF mIdx < Len(Messages(CurrentSet))
    THEN /\ mIdx' = mIdx + 1
         /\ pc' = "message"
    ELSE /\ mIdx' = mIdx
         /\ pc' = "consume"

\* retry(Fixed::from_millis(1000), ..) runs its closure; Consumer::create()
\* returns Ok(consumer) and start_consumer is entered.
ConnectOk ==
    /\ pc = "connect"
    /\ consumer' = [fetch_offsets |-> StartOffsets,
                    consumed_offsets |-> [p \in Partitions |-> NotDirty]]
    /\ pc' = "poll"
    /\ UNCHANGED <<committed, message_sets, msIdx, mIdx, failures, lastError,
                   slept, applied, failedBatch, committedAtPoll>>
    /\ UNCHANGED <<storeVars, aggregateVars, moreVars>>

\* Consumer::create() returns Err: the closure returns Err(InternalError).
ConnectFail ==
    /\ pc = "connect"
    /\ Fail("connect")
    /\ UNCHANGED <<committed, applied, failedBatch, committedAtPoll>>
    /\ UNCHANGED <<storeVars, aggregateVars, moreVars>>

\* The fixed delay of retry elapses and the closure is run again.
RetryDelay ==
    /\ pc = "delay"
    /\ slept' = FixedDelayMs
    /\ pc' = "connect"
    /\ UNCHANGED <<committed, consumer, message_sets, msIdx, mIdx, failures,
                   lastError, applied, failedBatch, committedAtPoll>>
    /\ UNCHANGED <<storeVars, aggregateVars, moreVars>>

\* consumer.poll() returns Ok: for every partition the messages from the
\* handle's fetch offset up to some later offset, as one message set per
\* partition that has messages, in some order of the partitions.
PollOk ==
    /\ pc = "poll"
    /\ \E hi \in [Partitions -> 0 .. LogLen] :
         /\ \A p \in Partitions : hi[p] >= consumer.fetch_offsets[p]
         /\ \E order \in Orders({p \in Partitions :
                                    hi[p] > consumer.fetch_offsets[p]}) :
              /\ message_sets' =
                    [i \in DOMAIN order |->
                        [partition |-> order[i],
                         messages |-> Range(consumer.fetch_offsets[order[i]],
                                            hi[order[i]])]]
              /\ consumer' = [consumer EXCEPT !.fetch_offsets = hi]
              /\ IF order = <<>>
                 THEN pc' = "commit" /\ msIdx' = 0 /\ mIdx' = 0
                 ELSE pc' = "message" /\ msIdx' = 1 /\ mIdx' = 1
    /\ committedAtPoll' = committed
    /\ UNCHANGED <<committed, failures, lastError, slept, applied,
                   failedBatch>>
    /\ UNCHANGED <<storeVars, aggregateVars, moreVars>>

\* consumer.poll() returns Err.
PollFail ==
    /\ pc = "poll"
    /\ Fail("poll")
    /\ UNCHANGED <<committed, applied, failedBatch, committedAtPoll>>
    /\ UNCHANGED <<storeVars, aggregateVars, moreVars>>

\* deserialize(..) of the message's payload returns Err: apply is not called.
DeserializeFail ==
    /\ pc = "message"
    /\ Fail("deserialize")
    /\ failedBatch' = BatchMessages(message_sets)
    /\ UNCHANGED <<committed, applied, committedAtPoll>>
    /\ UNCHANGED <<storeVars, aggregateVars, moreVars>>

\* deserialize(..) returns the envelope and apply(event_envelope) returns Ok.
ApplyOk ==
    /\ pc = "message"
    /\ applied' = [applied EXCEPT ![CurrentPartition] = @ \cup {CurrentOffset}]
    /\ NextMessage
    /\ failedBatch' = {}
    /\ UNCHANGED <<committed, consumer, message_sets, msIdx, failures,
                   lastError, slept, committedAtPoll>>
    /\ UNCHANGED <<storeVars, aggregateVars, moreVars>>

\* A bug that logs the Err of apply and goes on with the next message.
ApplyFailSkip ==
    /\ pc = "message"
    /\ failures < MaxFailures
    /\ failures' = failures + 1
    /\ lastError' = "apply"
    /\ NextMessage
    /\ failedBatch' = {}
    /\ UNCHANGED <<committed, consumer, message_sets, msIdx, slept, applied,
                   committedAtPoll>>
    /\ UNCHANGED <<storeVars, aggregateVars, moreVars>>

\* deserialize(..) returns the envelope and apply(event_envelope) returns Err.
ApplyFail ==
    /\ pc = "message"
    /\ Fail("apply")
    /\ failedBatch' = BatchMessages(message_sets)
    /\ UNCHANGED <<committed, applied, committedAtPoll>>
    /\ UNCHANGED <<storeVars, aggregateVars, moreVars>>

\* A bug that commits the offset of a message set as soon as it is consumed.
ConsumeOkCommit ==
    /\ pc = "consume"
    /\ committed' =
          [committed EXCEPT ![CurrentPartition] =
              Messages(CurrentSet)[Len(Messages(CurrentSet))] + 1]
    /\ IF msIdx < Len(message_sets)
       THEN msIdx' = msIdx + 1 /\ mIdx' = 1 /\ pc' = "message"
       ELSE msIdx' = msIdx /\ mIdx' = mIdx /\ pc' = "commit"
    /\ UNCHANGED <<consumer, message_sets, failures, lastError, slept,
                   applied, failedBatch, committedAtPoll>>
    /\ UNCHANGED <<storeVars, aggregateVars, moreVars>>

\* consumer.consume_messageset(message_set) returns Ok: the handle remembers
\* the last offset of the set as consumed; nothing is sent to the broker.
ConsumeOk ==
    /\ pc = "consume"
    /\ consumer' =
          [consumer EXCEPT !.consumed_offsets[CurrentPartition] =
              Messages(CurrentSet)[Len(Messages(CurrentSet))]]
    /\ IF msIdx < Len(message_sets)
       THEN msIdx' = msIdx + 1 /\ mIdx' = 1 /\ pc' = "message"
       ELSE msIdx' = msIdx /\ mIdx' = mIdx /\ pc' = "commit"
    /\ UNCHANGED <<committed, message_sets, failures, lastError, slept,
                   applied, failedBatch, committedAtPoll>>
    /\ UNCHANGED <<storeVars, aggregateVars, moreVars>>

\* consumer.consume_messageset(message_set) returns Err.
ConsumeFail ==
    /\ pc = "consume"
    /\ Fail("consume")
    /\ UNCHANGED <<committed, applied, failedBatch, committedAtPoll>>
    /\ UNCHANGED <<storeVars, aggregateVars, moreVars>>

\* The group offsets after the broker stored the consumed offsets of the
\* partitions S: the offset of the next message to read.
CommitOffsets(S) ==
    [p \in Partitions |->
        IF p \in S /\ consumer.consumed_offsets[p] # NotDirty
        THEN consumer.consumed_offsets[p] + 1
        ELSE committed[p]]

\* A bug that returns Ok(()) from start_consumer after the first commit.
CommitOkReturn ==
    /\ pc = "commit"
    /\ committed' = CommitOffsets(Partitions)
    /\ consumer' = NoConsumer
    /\ pc' = "returned"
    /\ failedBatch' = {}
    /\ UNCHANGED <<message_sets, msIdx, mIdx, failures, lastError, slept,
                   applied, committedAtPoll>>
    /\ UNCHANGED <<storeVars, aggregateVars, moreVars>>

\* consumer.commit_consumed() returns Ok: back to the top of the loop.
CommitOk ==
    /\ pc = "commit"
    /\ committed' = CommitOffsets(Partitions)
    /\ consumer' = [consumer EXCEPT
                      !.consumed_offsets = [p \in Partitions |-> NotDirty]]
    /\ pc' = "poll"
    /\ failedBatch' = {}
    /\ UNCHANGED <<message_sets, msIdx, mIdx, failures, lastError, slept,
                   applied, committedAtPoll>>
    /\ UNCHANGED <<storeVars, aggregateVars, moreVars>>

\* consumer.commit_consumed() returns Err; the broker may have stored the
\* offsets of some of the partitions before the error.
CommitFail ==
    /\ pc = "commit"
    /\ \E S \in SUBSET Partitions : committed' = CommitOffsets(S)
    /\ Fail("commit")
    /\ failedBatch' = {}
    /\ UNCHANGED <<applied, committedAtPoll>>
    /\ UNCHANGED <<storeVars, aggregateVars, moreVars>>

ConsumerNext ==
    \/ ConnectOk
    \/ ConnectFail
    \/ RetryDelay
    \/ PollOk
    \/ PollFail
    \/ DeserializeFail
    \/ ApplyOk
    \/ ApplyFail
    \/ ConsumeOk
    \/ ConsumeFail
    \/ CommitOk
    \/ CommitFail

(***************************************************************************)
(* The stream consumer: claims.                                            *)
(***************************************************************************)
\* C1: an offset is committed only after the messages below it were applied:
\* in every reachable state, every message whose offset is below the
\* committed offset of its partition has had apply return Ok at least once.
C1_CommittedOnlyAfterApplied ==
    \A p \in Partitions :
        \A k \in Offsets : k < committed[p] => k \in applied[p]

\* C1 witness: after a failure and a restart, offsets of a whole partition
\* are committed.
C1_Witness ==
    /\ failures >= 1
    /\ \E p \in Partitions : committed[p] = LogLen

\* C2: when a message of a polled batch fails to deserialize or to apply,
\* no offset is committed for that batch: until the next poll has delivered
\* again, the group offsets are what they were when the batch was polled and
\* lie at or below every message of the batch; the handle of the next cycle
\* starts at or below every message of the batch, and once it has polled,
\* each message of the batch is in the new batch or still ahead of the
\* handle's fetch offset (none is skipped).
C2_FailedBatchNotCommittedAndRedelivered ==
    failedBatch # {} =>
        /\ committed = committedAtPoll
        /\ \A m \in failedBatch :
              /\ committed[m[1]] <= m[2]
              /\ consumer # NoConsumer =>
                    \/ m \in BatchMessages(message_sets)
                    \/ consumer.fetch_offsets[m[1]] <= m[2]

\* C2 witness: a batch of 3 messages of one partition was aborted because
\* apply failed on its 2nd message (the 1st had been applied), no offset is
\* committed, and the next poll has delivered all 3 again.
C2_Witness ==
    /\ failures = 1
    /\ lastError = "apply"
    /\ pc = "message"
    /\ msIdx = 1
    /\ mIdx = 1
    /\ Cardinality(failedBatch) = 3
    /\ failedBatch = BatchMessages(message_sets)
    /\ Len(message_sets) = 1
    /\ applied[CurrentPartition] = {0}
    /\ \A p \in Partitions : committed[p] = NoOffset

\* C3: the messages of a partition are applied in offset order: whenever the
\* consumer is about to pass a message to apply, every message of the same
\* partition with a smaller offset has been applied with Ok before.
C3_AppliedInOffsetOrder ==
    pc = "message" => AppliedBefore(CurrentPartition, CurrentOffset)

\* C3 witness: after a failure and a re-delivery, the consumer is about to
\* apply the last message of a partition for the first time.
C3_Witness ==
    /\ pc = "message"
    /\ failures >= 1
    /\ CurrentOffset = LogLen - 1
    /\ CurrentOffset \notin applied[CurrentPartition]

\* consumer.poll() returns at least one message.
PollDelivers == PollOk /\ message_sets' # <<>>

\* The scheduling the progress of the consumer rests on: the thread that
\* runs on_event keeps running, every call that can return Ok does so once
\* the failures have stopped (Fail allows MaxFailures of them), and a poll
\* for which the broker has messages does not come back empty for ever.
ConsumerFairness ==
    /\ WF_vars(ConnectOk)
    /\ WF_vars(RetryDelay)
    /\ WF_vars(ApplyOk)
    /\ WF_vars(ConsumeOk)
    /\ WF_vars(CommitOk)
    /\ SF_vars(PollDelivers)

\* C21: at-least-once progress: when failures occur only finitely often
\* and the consumer is scheduled fairly, every message published to a
\* partition is eventually applied with Ok and its offset is eventually
\* committed; no message is dropped. Applied messages and committed offsets
\* are never taken back, so the consumer reaches a state where this holds of
\* every message at once.
C21_EveryMessageEventuallyAppliedAndCommitted ==
    <>(\A p \in Partitions : \A k \in Offsets :
           k \in applied[p] /\ committed[p] > k)

\* C21 witness: after MaxFailures failures, deserialize and apply failures
\* among them, every message has been applied and every offset committed.
C21_Witness ==
    /\ failures = MaxFailures
    /\ lastError \in {"deserialize", "apply"}
    /\ \A p \in Partitions : applied[p] = Offsets /\ committed[p] = LogLen

\* Nobody has asked the consumer to stop.
CancelInit == cancel_requested = FALSE

\* The caller of on_event asks the consumer to stop. on_event takes no
\* token, channel or flag, and neither on_event nor start_consumer reads
\* one: the request changes nothing the consumer looks at.
RequestCancel ==
    /\ ~cancel_requested
    /\ cancel_requested' = TRUE
    /\ UNCHANGED <<consumerVars, storeVars, aggregateVars, handlerVars,
                   snapshotVars, serdeVars>>

CancelNext ==
    \/ ConsumerNext
    \/ RequestCancel

\* C15: cancellation takes effect between cycles: once it is requested,
\* a consumer that is at the top of its loop (the cycle boundary) stops
\* there: it does not poll another batch, and no batch is left partially
\* committed.
C15_CancelStopsAtCycleBoundary ==
    [][(cancel_requested /\ pc = "poll") =>
          /\ pc' \notin {"message", "commit", "delay"}
          /\ committed' = committed]_vars

\* on_event has not returned: the consumer is at one of the steps of
\* on_event / start_consumer.
OnEventRunning ==
    pc \in {"connect", "poll", "message", "consume", "commit", "delay"}

\* C13: a DomainError (apply rejects an event) and a SerializationError (a
\* payload does not deserialize) are never retried by the consumer: they
\* propagate to the caller of on_event, so after such an error on_event is
\* no longer running; only broker errors are absorbed by the retry loop.
C13_DomainAndSerializationErrorsPropagate ==
    lastError \in {"deserialize", "apply"} => ~OnEventRunning

\* C14: the consumer has no terminal success state: on_event never returns,
\* after every commit that succeeds the consumer is back at the poll at the
\* top of its loop, and in every state it has a next step to take.
C14_NoTerminalSuccess ==
    /\ [][/\ OnEventRunning'
          /\ (pc = "commit" /\ failures' = failures) => pc' = "poll"]_vars
    /\ [](ENABLED <<ConsumerNext>>_consumerVars)

\* C14 witness: everything published has been applied and committed, and
\* the consumer has polled again (an empty batch) and is about to commit.
C14_Witness ==
    /\ pc = "commit"
    /\ message_sets = <<>>
    /\ \A p \in Partitions : committed[p] = LogLen

\* C17: after any failure (connect, poll, deserialize, apply, mark-consumed,
\* commit) the handle is dropped with its in-memory consumed offsets and its
\* batch, the only next step is the fixed delay of 1000 ms, the attempt after
\* it is a connect, and a connect that succeeds creates a new handle that
\* reads from the group's committed offset (earliest if there is none) and
\* has nothing marked consumed; polling always uses such a handle.
C17_FreshConnectAfterFixedDelay ==
    [][/\ failures' > failures =>
             /\ pc' = "delay"
             /\ slept' = 0
             /\ consumer' = NoConsumer
             /\ message_sets' = <<>>
       /\ pc = "delay" => (pc' = "connect" /\ slept' = 1000)
       /\ (pc = "connect" /\ failures >= 1) => slept = 1000
       /\ (pc = "connect" /\ pc' = "poll") =>
             /\ consumer'.fetch_offsets =
                   [p \in Partitions |->
                       IF committed[p] = NoOffset THEN 0 ELSE committed[p]]
             /\ consumer'.consumed_offsets = [p \in Partitions |-> NotDirty]
       /\ pc' = "poll" =>
             /\ consumer' # NoConsumer
             /\ pc \in {"connect", "commit"}
             /\ failures' = failures]_vars

\* C17 witness: after a failure that dropped a handle which had applied and
\* marked consumed messages it had not committed, and after the delay, a
\* new handle is about to poll from the committed offsets: the applied but
\* uncommitted messages are ahead of it again.
C17_Witness ==
    /\ pc = "poll"
    /\ failures >= 1
    /\ lastError \in {"consume", "commit", "apply"}
    /\ slept = FixedDelayMs
    /\ consumer.fetch_offsets = StartOffsets
    /\ \A p \in Partitions : consumer.consumed_offsets[p] = NotDirty
    /\ \E p \in Partitions :
          \E k \in applied[p] : k >= consumer.fetch_offsets[p]

(***************************************************************************)
(* The event store: the EventStore trait as CassandraEventStore            *)
(* implements it. Tasks call read, read_from and persist; a call is a      *)
(* future that runs when it is polled.                                     *)
(***************************************************************************)
StoreInit ==
    /\ task = [t \in Tasks |-> Idle]
    /\ persisted = {}

\* todo!(): the body panics with "not yet implemented".
Todo == [kind |-> "Panic", value |-> <<>>, message |-> "not yet implemented"]

\* CassandraEventStore::read(&self, _aggregate_id)
read(aggregate_id) == Todo

\* CassandraEventStore::read_from(&self, _aggregate_id, _version)
read_from(aggregate_id, version) == Todo

\* CassandraEventStore::persist(&self, _event_envelope)
persist(event_envelope) == Todo

\* A task calls store.read(&aggregate_id): the future is created.
CallRead(t, id) ==
    /\ task[t].state = "idle"
    /\ task' = [task EXCEPT ![t] =
                  [Idle EXCEPT !.state = "pending", !.op = "read",
                               !.aggregate_id = id]]
    /\ UNCHANGED persisted
    /\ UNCHANGED <<consumerVars, aggregateVars, moreVars>>

\* A task calls store.read_from(&aggregate_id, version).
CallReadFrom(t, id, v) ==
    /\ task[t].state = "idle"
    /\ task' = [task EXCEPT ![t] =
                  [Idle EXCEPT !.state = "pending", !.op = "read_from",
                               !.aggregate_id = id, !.version = v]]
    /\ UNCHANGED persisted
    /\ UNCHANGED <<consumerVars, aggregateVars, moreVars>>

\* A task calls store.persist(event_envelope).
CallPersist(t, id, v) ==
    /\ task[t].state = "idle"
    /\ task' = [task EXCEPT ![t] =
                  [Idle EXCEPT !.state = "pending", !.op = "persist",
                               !.aggregate_id = id, !.version = v]]
    /\ UNCHANGED persisted
    /\ UNCHANGED <<consumerVars, aggregateVars, moreVars>>

\* The future of a call is polled: the body of the method runs.
Await(t) ==
    /\ task[t].state = "pending"
    /\ LET c == task[t]
           r == CASE c.op = "read" -> read(c.aggregate_id)
                  [] c.op = "read_from" -> read_from(c.aggregate_id, c.version)
                  [] c.op = "persist" ->
                        persist([aggregate_id |-> c.aggregate_id,
                                 version |-> c.version])
       IN /\ task' = [task EXCEPT ![t] =
                        [c EXCEPT !.state = "done", !.result = r,
                                  !.existed =
                                     <<c.aggregate_id, c.version>> \in persisted]]
          /\ persisted' =
                IF c.op = "persist" /\ r.kind = "Ok"
                THEN persisted \cup {<<c.aggregate_id, c.version>>}
                ELSE persisted
    /\ UNCHANGED <<consumerVars, aggregateVars, moreVars>>

\* The outcome has been observed; the task goes on to its next call.
Return(t) ==
    /\ task[t].state = "done"
    /\ task' = [task EXCEPT ![t] = Idle]
    /\ UNCHANGED persisted
    /\ UNCHANGED <<consumerVars, aggregateVars, moreVars>>

StoreNext ==
    \/ \E t \in Tasks, id \in AggregateIds : CallRead(t, id)
    \/ \E t \in Tasks, id \in AggregateIds, v \in Versions :
          CallReadFrom(t, id, v)
    \/ \E t \in Tasks, id \in AggregateIds, v \in Versions :
          CallPersist(t, id, v)
    \/ \E t \in Tasks : Await(t)
    \/ \E t \in Tasks : Return(t)

(***************************************************************************)
(* The aggregate: TestAggregate of the documentation and the tests.        *)
(***************************************************************************)
MinInt == -(2 ^ (IntBits - 1))
MaxInt == (2 ^ (IntBits - 1)) - 1

\* Two's complement wrap-around of an arithmetic result.
Wrap(x) == ((x - MinInt) % (2 ^ IntBits)) + MinInt

EventIds == {"2e99", "7f3a"}
Amounts == {MinInt, 1, 5, MaxInt}

\* TestEvent { id, amount }
TestEvent == [id : EventIds, amount : Amounts]

\* Option and Result values.
None == [kind |-> "None"]
Some(v) == [kind |-> "Some", value |-> v]
Ok(v) == [kind |-> "Ok", value |-> v]
Err(e) == [kind |-> "Err", error |-> e]
Panic(m) == [kind |-> "Panic", message |-> m]

\* state.total + event.amount on i64: a panic when the build checks
\* overflow, two's complement wrap-around when it does not.
Add(a, b) ==
    IF a + b < MinInt \/ a + b > MaxInt
    THEN IF overflow_checks
         THEN Panic("attempt to add with overflow")
         ELSE Ok(Wrap(a + b))
    ELSE Ok(a + b)

\* TestAggregate::apply(state: Option<Self>, event) -> Result<Self, Error>
TestAggregate_apply(state, event) ==
    IF state = None
    THEN Ok([id |-> event.id, total |-> event.amount])
    ELSE LET sum == Add(state.value.total, event.amount)
         IN IF sum.kind = "Ok"
            THEN Ok([state.value EXCEPT !.total = sum.value])
            ELSE sum

\* Aggregate::apply of the trait: an implementor returns Ok(state) or
\* Err(error). The implementors modelled reject the events whose amount is
\* in rejects and are TestAggregate otherwise (rejects = {}: TestAggregate).
apply(state, event) ==
    IF event.amount \in rejects
    THEN Err("DomainError")
    ELSE TestAggregate_apply(state, event)

into_iter_rev(list) == [i \in DOMAIN list |-> list[Len(list) + 1 - i]]

\* events.into_iter(): the events in the order of the list.
into_iter(list) == list

\* A closure that forgets an earlier Err and goes on from no state.
ClosureNoShortCircuit(acc, event) ==
    IF acc.result.kind = "Panic"
    THEN acc
    ELSE LET state == IF acc.result.kind = "Err" THEN None ELSE acc.result.value
             r == apply(state, event)
         IN [result |-> IF r.kind = "Ok" THEN Ok(Some(r.value)) ELSE r,
             calls |-> Append(acc.calls, event)]

\* The closure of the fold, |state, event| Self::apply(state?, event)
\* .map(|new_state| Some(new_state)): `state?` returns an earlier Err
\* without calling apply; a panic of apply has unwound the fold. calls
\* records the events apply was invoked with.
Closure(acc, event) ==
    IF acc.result.kind \in {"Err", "Panic"}
    THEN acc
    ELSE LET r == apply(acc.result.value, event)
         IN [result |-> IF r.kind = "Ok" THEN Ok(Some(r.value)) ELSE r,
             calls |-> Append(acc.calls, event)]

RECURSIVE fold(_, _)
\* Iterator::fold(init, f) over the remaining items.
fold(acc, items) ==
    IF items = <<>> THEN acc ELSE fold(Closure(acc, Head(items)), Tail(items))

NoneArmDefault == Ok([id |-> "", total |-> 0])

\* The arm Ok(None) => Err(Error::try_from("Aggregate must not be None"))
NoneArm == Err("Aggregate must not be None")

\* TestAggregate::apply_all(events) -> Result<Self, Error>, with the events
\* apply was invoked with.
apply_all(list) ==
    LET folded == fold([result |-> Ok(None), calls |-> <<>>], into_iter(list))
        r == folded.result
    IN [result |-> CASE r.kind = "Ok" /\ r.value.kind = "Some" -> Ok(r.value.value)
                     [] r.kind = "Ok" /\ r.value.kind = "None" -> NoneArm
                     [] r.kind = "Err" -> Err(r.error)
                     [] r.kind = "Panic" -> r,
        calls |-> folded.calls]

\* The implementors of Aggregate the model folds with.
RejectChoices == {{}} \cup {{a} : a \in Amounts}

\* No caller is folding events.
AggregateIdle ==
    /\ events = <<>>
    /\ foldState = Ok(None)
    /\ failedAt = 0
    /\ failError = ""
    /\ runs = <<>>
    /\ overflow_checks = TRUE
    /\ rejects = {}

AggregateInit ==
    /\ events = <<>>
    /\ foldState = Ok(None)
    /\ failedAt = 0
    /\ failError = ""
    /\ runs = <<>>
    /\ overflow_checks \in BOOLEAN
    /\ rejects \in RejectChoices

\* The caller appends one event to its list and folds it into the state it
\* holds: apply(state, event) on the state all earlier events produced.
Feed(event) ==
    /\ Len(events) < MaxLen
    /\ events' = Append(events, event)
    /\ runs' = <<>>
    /\ IF foldState.kind = "Ok"
       THEN LET r == apply(foldState.value, event)
            IN /\ foldState' = IF r.kind = "Ok" THEN Ok(Some(r.value)) ELSE r
               /\ failedAt' = IF r.kind = "Err" THEN Len(events) + 1 ELSE failedAt
               /\ failError' = IF r.kind = "Err" THEN r.error ELSE failError
       ELSE UNCHANGED <<foldState, failedAt, failError>>
    /\ UNCHANGED <<overflow_checks, rejects>>
    /\ UNCHANGED <<consumerVars, storeVars, moreVars>>

\* The caller runs TestAggregate::apply_all on its list.
RunApplyAll ==
    /\ Len(runs) < 2
    /\ runs' = Append(runs, apply_all(events))
    /\ UNCHANGED <<events, foldState, failedAt, failError, overflow_checks,
                   rejects>>
    /\ UNCHANGED <<consumerVars, storeVars, moreVars>>

AggregateNext ==
    \/ \E event \in TestEvent : Feed(event)
    \/ RunApplyAll

(***************************************************************************)
(* The event store: claims.                                                *)
(***************************************************************************)
\* The calls of op that have completed.
Done(op) == {t \in Tasks : task[t].state = "done" /\ task[t].op = op}

\* The versions 0, 1, .. of the envelopes a read returned.
VersionsOf(envelopes) == [i \in DOMAIN envelopes |-> envelopes[i].version]

\* The envelopes of a list from the first one whose version is >= v.
SuffixFrom(envelopes, v) ==
    LET from == {i \in DOMAIN envelopes : envelopes[i].version >= v}
    IN IF from = {} THEN <<>>
       ELSE SubSeq(envelopes, CHOOSE i \in from : \A j \in from : i <= j,
                   Len(envelopes))

\* C4: persist enforces optimistic concurrency: a completed persist has
\* failed with VersionConflict when the store already held an envelope of
\* that aggregate id at that version, and has succeeded otherwise (version 0
\* of a brand-new aggregate id succeeds, a second version 0 conflicts).
C4_PersistOptimisticConcurrency ==
    \A t \in Done("persist") :
        task[t].result.kind =
            IF task[t].existed THEN "VersionConflict" ELSE "Ok"

\* C5: of two concurrent persist calls for the same aggregate id and the
\* same version, exactly one succeeds and the other gets VersionConflict.
C5_ExactlyOneConcurrentPersistSucceeds ==
    \A t1, t2 \in Done("persist") :
        (/\ t1 # t2
         /\ task[t1].aggregate_id = task[t2].aggregate_id
         /\ task[t1].version = task[t2].version
         /\ ~task[t1].existed /\ ~task[t2].existed)
        => {task[t1].result.kind, task[t2].result.kind} =
              {"Ok", "VersionConflict"}

\* C6: after any sequence of persist calls, the stream read returns for an
\* aggregate id has the versions 0, 1, 2, .. : unique, strictly increasing,
\* without gaps.
C6_ReadVersionsGapless ==
    \A t \in Done("read") :
        /\ task[t].result.kind = "Ok"
        /\ VersionsOf(task[t].result.value) =
              [i \in DOMAIN task[t].result.value |-> i - 1]

\* C7: read_from(id, v) returns the suffix of read(id) from the first
\* envelope whose version is >= v, and for an aggregate id without events
\* read and read_from return the empty list, not an error.
C7_ReadFromIsSuffixOfRead ==
    /\ \A t \in Done("read") \cup Done("read_from") :
          (\A v \in Versions : <<task[t].aggregate_id, v>> \notin persisted)
          => task[t].result = [kind |-> "Ok", value |-> <<>>, message |-> ""]
    /\ \A t1 \in Done("read"), t2 \in Done("read_from") :
          task[t1].aggregate_id = task[t2].aggregate_id
          => /\ task[t1].result.kind = "Ok"
             /\ task[t2].result.kind = "Ok"
             /\ task[t2].result.value =
                   SuffixFrom(task[t1].result.value, task[t2].version)

(***************************************************************************)
(* The aggregate: claims.                                                  *)
(***************************************************************************)
\* The outcome of the fold the caller did event by event, as a
\* Result<Self, Error>.
FoldOutcome ==
    IF foldState.kind = "Ok" THEN Ok(foldState.value.value) ELSE foldState

\* C8: for a non-empty event list, apply_all returns what folding apply over
\* the list from None, left to right, returns, and two runs on the same
\* list return the same.
C8_ApplyAllIsLeftFold ==
    events # <<>> =>
        \A i \in DOMAIN runs :
            /\ runs[i].result = FoldOutcome
            /\ runs[i] = runs[1]

\* C8 witness: apply_all ran twice on a list of MaxLen events of two
\* different ids and returned a state.
C8_Witness ==
    /\ Len(events) = MaxLen
    /\ events[1].id # events[MaxLen].id
    /\ Len(runs) = 2
    /\ runs[2].result.kind = "Ok"

\* C9: apply_all on the empty list fails with the error "Aggregate must not
\* be None" and never returns a state.
C9_ApplyAllEmptyFails ==
    events = <<>> =>
        \A i \in DOMAIN runs :
            /\ runs[i].result = Err("Aggregate must not be None")
            /\ runs[i].result.kind # "Ok"
            /\ runs[i].calls = <<>>

\* C9 witness: apply_all has run on the empty list.
C9_Witness ==
    /\ events = <<>>
    /\ Len(runs) >= 1

\* C10: apply_all short-circuits on the first error: when apply returns Err
\* on the i-th event, apply_all returns that error and has invoked apply on
\* the first i events only.
C10_ApplyAllShortCircuits ==
    failedAt # 0 =>
        \A i \in DOMAIN runs :
            /\ runs[i].result = Err(failError)
            /\ runs[i].calls = SubSeq(events, 1, failedAt)

\* C10 witness: apply failed on the 2nd event of a list with a later event
\* apply would accept, and apply_all has run on it.
C10_Witness ==
    /\ failedAt = 2
    /\ Len(events) > failedAt
    /\ events[Len(events)].amount \notin rejects
    /\ Len(runs) >= 1

RECURSIVE SumAmounts(_)
\* The sum of the amounts of a list of events, as an integer.
SumAmounts(list) ==
    IF list = <<>> THEN 0 ELSE Head(list).amount + SumAmounts(Tail(list))

\* C11: for TestAggregate, apply_all over a non-empty event list yields an
\* aggregate whose id is the id of the first event and whose total is the
\* sum of the amounts of all the events (amount 1 gives total 1, a further
\* amount 5 gives total 6); later ids do not change the id.
C11_TotalIsSumOfAmounts ==
    (rejects = {} /\ events # <<>>) =>
        \A i \in DOMAIN runs :
            /\ runs[i].result.kind = "Ok"
            /\ runs[i].result.value.id = events[1].id
            /\ runs[i].result.value.total = SumAmounts(events)

\* C18: apply never fails process-fatally because of the content of an
\* event: for every prior state and every amount, the sum leaving the
\* integer range included, it returns a new state or a domain error.
C18_ApplyNeverPanics ==
    foldState.kind \in {"Ok", "Err"}

(***************************************************************************)
(* A CommandHandler as the specification describes it (the library only    *)
(* declares the trait): handle loads the aggregate, validates the command, *)
(* persists the derived event at the expected next version and, on a       *)
(* VersionConflict, retries the whole cycle a bounded number of times.     *)
(* The stream it writes obeys the EventStore contract: persist at a        *)
(* version that exists is a VersionConflict.                               *)
(***************************************************************************)
Commands == {"accept", "reject"}

HandlerInit ==
    /\ next_version = 0
    /\ other_writes = 0
    /\ command = "none"
    /\ hpc = "idle"
    /\ expected = 0
    /\ conflicts = 0
    /\ handle_result = "none"

\* handle(command) is called.
Handle(cmd) ==
    /\ hpc = "idle"
    /\ command' = cmd
    /\ hpc' = "load"
    /\ UNCHANGED <<next_version, other_writes, expected, conflicts,
                   handle_result>>
    /\ UNCHANGED <<consumerVars, storeVars, aggregateVars, cancelVars,
                   snapshotVars, serdeVars>>

\* Load: read the events of the aggregate; the next version is their number.
Load ==
    /\ hpc = "load"
    /\ expected' = next_version
    /\ hpc' = "validate"
    /\ UNCHANGED <<next_version, other_writes, command, conflicts,
                   handle_result>>
    /\ UNCHANGED <<consumerVars, storeVars, aggregateVars, cancelVars,
                   snapshotVars, serdeVars>>

\* Validate the command against the loaded state: a command the business
\* rules reject ends handle with a DomainError, an accepted one yields the
\* event to persist.
Validate ==
    /\ hpc = "validate"
    /\ IF command = "reject"
       THEN hpc' = "done" /\ handle_result' = "DomainError"
       ELSE hpc' = "persist" /\ handle_result' = handle_result
    /\ UNCHANGED <<next_version, other_writes, command, expected, conflicts>>
    /\ UNCHANGED <<consumerVars, storeVars, aggregateVars, cancelVars,
                   snapshotVars, serdeVars>>

\* Another writer appends an event to the same aggregate.
OtherWriterAppends ==
    /\ other_writes < MaxWrites
    /\ other_writes' = other_writes + 1
    /\ next_version' = next_version + 1
    /\ UNCHANGED <<command, hpc, expected, conflicts, handle_result>>
    /\ UNCHANGED <<consumerVars, storeVars, aggregateVars, cancelVars,
                   snapshotVars, serdeVars>>

\* persist at the expected version succeeds: no envelope is there yet.
PersistOk ==
    /\ hpc = "persist"
    /\ expected = next_version
    /\ next_version' = next_version + 1
    /\ hpc' = "done"
    /\ handle_result' = "Ok"
    /\ UNCHANGED <<other_writes, command, expected, conflicts>>
    /\ UNCHANGED <<consumerVars, storeVars, aggregateVars, cancelVars,
                   snapshotVars, serdeVars>>

\* A handler that retries on every VersionConflict, without a bound.
PersistConflictUnbounded ==
    /\ hpc = "persist"
    /\ expected # next_version
    /\ conflicts' = conflicts + 1
    /\ hpc' = "load"
    /\ handle_result' = handle_result
    /\ UNCHANGED <<next_version, other_writes, command, expected>>
    /\ UNCHANGED <<consumerVars, storeVars, aggregateVars, cancelVars,
                   snapshotVars, serdeVars>>

\* persist returns VersionConflict: an envelope exists at the expected
\* version. The handler starts its cycle again, unless it has retried
\* MaxRetries times already: then it returns ContentionExceeded.
PersistConflict ==
    /\ hpc = "persist"
    /\ expected # next_version
    /\ conflicts' = conflicts + 1
    /\ IF conflicts < MaxRetries
       THEN hpc' = "load" /\ handle_result' = handle_result
       ELSE hpc' = "done" /\ handle_result' = "ContentionExceeded"
    /\ UNCHANGED <<next_version, other_writes, command, expected>>
    /\ UNCHANGED <<consumerVars, storeVars, aggregateVars, cancelVars,
                   snapshotVars, serdeVars>>

HandlerNext ==
    \/ \E cmd \in Commands : Handle(cmd)
    \/ Load
    \/ Validate
    \/ OtherWriterAppends
    \/ PersistOk
    \/ PersistConflict

\* C16: on VersionConflict, handle retries its load-validate-persist cycle
\* a bounded number of times: one call sees at most MaxRetries + 1
\* conflicts however often other writers win, it returns
\* ContentionExceeded exactly when that many conflicts occurred, and that
\* result never stands for a rejection by the business rules (DomainError
\* is returned for a rejected command only, ContentionExceeded for an
\* accepted one only).
C16_BoundedRetryThenContentionExceeded ==
    /\ conflicts <= MaxRetries + 1
    /\ hpc = "done" <=>
          handle_result \in {"Ok", "DomainError", "ContentionExceeded"}
    /\ handle_result = "ContentionExceeded" <=>
          (hpc = "done" /\ conflicts = MaxRetries + 1)
    /\ handle_result = "ContentionExceeded" => command = "accept"
    /\ handle_result = "DomainError" <=> (hpc = "done" /\ command = "reject")
    /\ handle_result = "Ok" => conflicts <= MaxRetries

\* C16 witness: other writers won MaxRetries + 1 times in a row and are
\* still able to write; handle has returned ContentionExceeded.
C16_Witness ==
    /\ hpc = "done"
    /\ handle_result = "ContentionExceeded"
    /\ conflicts = MaxRetries + 1
    /\ other_writes < MaxWrites

(***************************************************************************)
(* Reconstruction of an aggregate from its latest snapshot and the events  *)
(* of its stream. The stream is the caller's event list (events), stored   *)
(* by an EventStore that does what the trait documents; the library has    *)
(* no code that takes a snapshot or resumes from one.                      *)
(***************************************************************************)
\* The version of the first envelope of a stream.
FirstVersion == 0

\* EventStore::read: all the envelopes of the aggregate, in order; version
\* is the version of the aggregate after the envelope has been applied.
ReadContract(list) ==
    [i \in DOMAIN list |-> [version |-> FirstVersion + i - 1, data |-> list[i]]]

\* A store whose read_from leaves out the envelope at the version itself.
ReadFromContractAfter(list, version) ==
    SelectSeq(ReadContract(list), LAMBDA e : e.version > version)

\* EventStore::read_from: all the envelopes on and after the version.
ReadFromContract(list, version) ==
    SelectSeq(ReadContract(list), LAMBDA e : e.version >= version)

\* The events carried by a list of envelopes.
Data(envelopes) == [i \in DOMAIN envelopes |-> envelopes[i].data]

\* SnapshotStore::read finds no snapshot.
NoSnapshot == [kind |-> "NotFound"]
\* No reconstruction has run.
NoRebuild == [mode |-> "none"]

SnapshotInit ==
    /\ snapshot = NoSnapshot
    /\ rebuilt = NoRebuild

\* A snapshot is taken at version v of the stream and persisted as the
\* latest: data is the aggregate after the envelopes up to version v have
\* been applied (SnapshotEnvelope.version).
TakeSnapshot(v) ==
    /\ rebuilt = NoRebuild
    /\ v \in FirstVersion .. (FirstVersion + Len(events) - 1)
    /\ LET upto == SelectSeq(ReadContract(events), LAMBDA e : e.version <= v)
           r == apply_all(Data(upto)).result
       IN /\ r.kind = "Ok"
          /\ snapshot' = [kind |-> "Snapshot", version |-> v, data |-> r.value]
    /\ UNCHANGED rebuilt
    /\ UNCHANGED <<consumerVars, storeVars, aggregateVars, cancelVars,
                   handlerVars, serdeVars>>

\* The state after folding apply over the envelopes on top of a state.
ApplyOnTop(state, envelopes) ==
    LET r == fold([result |-> Ok(Some(state)), calls |-> <<>>],
                  into_iter(Data(envelopes))).result
    IN IF r.kind = "Ok" THEN Ok(r.value.value) ELSE r

\* How a reconstruction resumes: "replay" is apply_all over read(id),
\* "from_version" folds read_from(id, v) on top of the snapshot taken at
\* version v, "from_next" folds read_from(id, v + 1) on top of it.
Modes ==
    IF snapshot = NoSnapshot THEN {"replay"} ELSE {"from_version", "from_next"}

\* The caller rebuilds the aggregate: from the latest snapshot if there is
\* one, by full replay if SnapshotStore::read returns NotFound.
Reconstruct(mode) ==
    /\ rebuilt = NoRebuild
    /\ mode \in Modes
    /\ rebuilt' =
          [mode |-> mode,
           result |->
              CASE mode = "replay" ->
                     apply_all(Data(ReadContract(events))).result
                [] mode = "from_version" ->
                     ApplyOnTop(snapshot.data,
                                ReadFromContract(events, snapshot.version))
                [] mode = "from_next" ->
                     ApplyOnTop(snapshot.data,
                                ReadFromContract(events, snapshot.version + 1))]
    /\ UNCHANGED snapshot
    /\ UNCHANGED <<consumerVars, storeVars, aggregateVars, cancelVars,
                   handlerVars, serdeVars>>

\* The stream grows until the caller rebuilds.
SnapshotNext ==
    \/ rebuilt = NoRebuild /\ \E event \in TestEvent : Feed(event)
    \/ \E v \in FirstVersion .. (FirstVersion + MaxLen - 1) : TakeSnapshot(v)
    \/ \E mode \in {"replay", "from_version", "from_next"} : Reconstruct(mode)

Quote == "\""
Backslash == "\\"
LBrace == "{"
RBrace == "}"
Colon == ":"
Comma == ","

\* The characters of the strings the model puts into envelopes: a letter
\* and the characters JSON or the consumer treat specially.
Chars == {"a", Quote, Backslash, LBrace, RBrace}

\* The strings of at most n characters.
Strings(n) == UNION {[1 .. k -> Chars] : k \in 0 .. n}

RECURSIVE Flatten(_)
\* The concatenation of a sequence of texts.
Flatten(texts) ==
    IF texts = <<>> THEN <<>> ELSE Head(texts) \o Flatten(Tail(texts))

\* An escaping that writes a quote as it is.
EscapeBackslashOnly(chars) ==
    Flatten([i \in DOMAIN chars |->
                IF chars[i] = Backslash THEN <<Backslash, Backslash>>
                ELSE <<chars[i]>>])

\* serde_json's escaping of the content of a string: a quote and a
\* backslash are preceded by a backslash, braces and letters are written as
\* they are.
Escape(chars) ==
    Flatten([i \in DOMAIN chars |->
                IF chars[i] \in {Quote, Backslash} THEN <<Backslash, chars[i]>>
                ELSE <<chars[i]>>])

\* A String as JSON.
JsonString(chars) == <<Quote>> \o Escape(chars) \o <<Quote>>
\* A Uuid or a DateTime<Utc> as JSON: a string of ordinary characters.
JsonAtom(atom) == <<Quote, atom, Quote>>
\* An i64 as JSON: its decimal digits.
JsonI64(n) == <<ToString(n)>>
\* The name of a field and the colon after it.
JsonKey(name) == <<Quote, name, Quote, Colon>>

\* TestEvent {id, amount} as JSON (derive(Serialize)).
TestEventJson(event) ==
    <<LBrace>> \o JsonKey("id") \o JsonAtom(event.id) \o <<Comma>>
        \o JsonKey("amount") \o JsonI64(event.amount) \o <<RBrace>>

\* TestAggregate {id, total} as JSON (derive(Serialize)).
TestAggregateJson(aggregate) ==
    <<LBrace>> \o JsonKey("id") \o JsonAtom(aggregate.id) \o <<Comma>>
        \o JsonKey("total") \o JsonI64(aggregate.total) \o <<RBrace>>

\* event::envelope::serialize: the fields in the order of the struct.
serialize(e) ==
    <<LBrace>> \o JsonKey("id") \o JsonAtom(e.id) \o <<Comma>>
        \o JsonKey("aggregate_id") \o JsonString(e.aggregate_id) \o <<Comma>>
        \o JsonKey("aggregate_type") \o JsonString(e.aggregate_type) \o <<Comma>>
        \o JsonKey("data") \o TestEventJson(e.data) \o <<Comma>>
        \o JsonKey("event_type") \o JsonString(e.event_type) \o <<Comma>>
        \o JsonKey("version") \o JsonI64(e.version) \o <<Comma>>
        \o JsonKey("timestamp") \o JsonAtom(e.timestamp) \o <<RBrace>>

\* snapshot::envelope::serialize.
snapshot_serialize(e) ==
    <<LBrace>> \o JsonKey("id") \o JsonAtom(e.id) \o <<Comma>>
        \o JsonKey("aggregate_id") \o JsonString(e.aggregate_id) \o <<Comma>>
        \o JsonKey("aggregate_type") \o JsonString(e.aggregate_type) \o <<Comma>>
        \o JsonKey("data") \o TestAggregateJson(e.data) \o <<Comma>>
        \o JsonKey("version") \o JsonI64(e.version) \o <<Comma>>
        \o JsonKey("timestamp") \o JsonAtom(e.timestamp) \o <<RBrace>>

RECURSIVE Replace(_, _, _)
\* str::replace(from, to) for a pattern of two characters: every match,
\* left to right, without overlap.
Replace(text, from, to) ==
    IF Len(text) < 2 THEN text
    ELSE IF SubSeq(text, 1, 2) = from
         THEN to \o Replace(SubSeq(text, 3, Len(text)), from, to)
         ELSE <<Head(text)>> \o Replace(Tail(text), from, to)

\* The consumer's rewriting of a message value before deserialize:
\* .replace("\\\"", "\"").replace("\"{", "{").replace("}\"", "}").
Preprocess(text) ==
    Replace(Replace(Replace(text, <<Backslash, Quote>>, <<Quote>>),
                    <<Quote, LBrace>>, <<LBrace>>),
            <<RBrace, Quote>>, <<RBrace>>)

\* The uuids of the model: the id of an envelope and the ids of events.
Uuids == {"1740"} \cup EventIds
\* The timestamps of the model.
Timestamps == {"2022-12-28T03:52:22.782613772Z"}

\* The outcome of parsing a prefix of a text: the value and what is left.
ParseFail == [ok |-> FALSE, value |-> <<>>, rest |-> <<>>]
Parsed(v, rest) == [ok |-> TRUE, value |-> v, rest |-> rest]

RECURSIVE StringBody(_, _)
\* The content of a JSON string up to its closing quote; a backslash
\* must be followed by a quote or a backslash (of the escapes JSON has,
\* the ones the characters of the model can form).
StringBody(text, acc) ==
    IF text = <<>> THEN ParseFail
    ELSE IF Head(text) = Quote THEN Parsed(acc, Tail(text))
    ELSE IF Head(text) = Backslash
         THEN IF Len(text) >= 2 /\ text[2] \in {Quote, Backslash}
              THEN StringBody(Tail(Tail(text)), Append(acc, text[2]))
              ELSE ParseFail
    ELSE StringBody(Tail(text), Append(acc, Head(text)))

\* A String: a quote, the content, a quote.
ParseStr(text) ==
    IF text # <<>> /\ Head(text) = Quote
    THEN StringBody(Tail(text), <<>>)
    ELSE ParseFail

\* A string whose content is one of the atoms (a uuid, a timestamp); a
\* uuid may stand in braces.
ParseAtom(text, atoms, braced) ==
    LET str == ParseStr(text)
    IN IF ~str.ok THEN ParseFail
       ELSE IF Len(str.value) = 1 /\ str.value[1] \in atoms
            THEN Parsed(str.value[1], str.rest)
       ELSE IF /\ braced
               /\ Len(str.value) = 3
               /\ str.value[1] = LBrace
               /\ str.value[2] \in atoms
               /\ str.value[3] = RBrace
            THEN Parsed(str.value[2], str.rest)
       ELSE ParseFail

\* The text starts with the decimal digits of an i64.
IsI64(text) ==
    text # <<>> /\ \E n \in MinInt .. MaxInt : ToString(n) = Head(text)

ParseI64(text) ==
    IF IsI64(text)
    THEN Parsed(CHOOSE n \in MinInt .. MaxInt : ToString(n) = Head(text),
                Tail(text))
    ELSE ParseFail

\* The fields of the structs and their types (derive(Deserialize)).
TestEventFields == [id |-> "Uuid", amount |-> "i64"]
TestAggregateFields == [id |-> "Uuid", total |-> "i64"]
EventEnvelopeFields ==
    [id |-> "Uuid", aggregate_id |-> "String", aggregate_type |-> "String",
     data |-> "TestEvent", event_type |-> "String", version |-> "i64",
     timestamp |-> "DateTime"]
SnapshotEnvelopeFields ==
    [id |-> "Uuid", aggregate_id |-> "String", aggregate_type |-> "String",
     data |-> "TestAggregate", version |-> "i64", timestamp |-> "DateTime"]

RECURSIVE ParseValue(_, _), ParseStruct(_, _), Members(_, _, _)
RECURSIVE SkipValue(_), SkipMembers(_)

\* A value of a field that no struct field names is parsed and ignored.
SkipValue(text) ==
    IF text = <<>> THEN ParseFail
    ELSE IF Head(text) = Quote
         THEN LET str == ParseStr(text)
              IN IF str.ok THEN Parsed(<<>>, str.rest) ELSE ParseFail
    ELSE IF Head(text) = LBrace
         THEN IF Len(text) >= 2 /\ text[2] = RBrace
              THEN Parsed(<<>>, Tail(Tail(text)))
              ELSE SkipMembers(Tail(text))
    ELSE IF IsI64(text) THEN Parsed(<<>>, Tail(text))
    ELSE ParseFail

SkipMembers(text) ==
    LET key == ParseStr(text)
    IN IF ~key.ok \/ key.rest = <<>> \/ Head(key.rest) # Colon THEN ParseFail
       ELSE LET v == SkipValue(Tail(key.rest))
            IN IF ~v.ok \/ v.rest = <<>> THEN ParseFail
               ELSE IF Head(v.rest) = Comma THEN SkipMembers(Tail(v.rest))
               ELSE IF Head(v.rest) = RBrace THEN Parsed(<<>>, Tail(v.rest))
               ELSE ParseFail

\* A value of the type of a field.
ParseValue(type, text) ==
    CASE type = "Uuid" -> ParseAtom(text, Uuids, TRUE)
      [] type = "DateTime" -> ParseAtom(text, Timestamps, FALSE)
      [] type = "String" -> ParseStr(text)
      [] type = "i64" -> ParseI64(text)
      [] type = "TestEvent" -> ParseStruct(text, TestEventFields)
      [] type = "TestAggregate" -> ParseStruct(text, TestAggregateFields)

\* The members of an object, from a key on: a field of the struct is
\* parsed as its type and must not come twice, any other key is ignored;
\* at the closing brace every field of the struct must have come.
Members(text, fields, got) ==
    LET key == ParseStr(text)
    IN IF ~key.ok \/ key.rest = <<>> \/ Head(key.rest) # Colon THEN ParseFail
       ELSE LET known == Len(key.value) = 1 /\ key.value[1] \in DOMAIN fields
                name == key.value[1]
                v == IF known THEN ParseValue(fields[name], Tail(key.rest))
                     ELSE SkipValue(Tail(key.rest))
                got2 == IF known THEN (name :> v.value) @@ got ELSE got
            IN IF known /\ name \in DOMAIN got THEN ParseFail
               ELSE IF ~v.ok \/ v.rest = <<>> THEN ParseFail
               ELSE IF Head(v.rest) = Comma
                    THEN Members(Tail(v.rest), fields, got2)
               ELSE IF Head(v.rest) = RBrace /\ DOMAIN got2 = DOMAIN fields
                    THEN Parsed(got2, Tail(v.rest))
               ELSE ParseFail

\* A struct: an object with the fields of the struct, in any order.
ParseStruct(text, fields) ==
    IF Len(text) >= 2 /\ Head(text) = LBrace /\ text[2] # RBrace
    THEN Members(Tail(text), fields, <<>>)
    ELSE ParseFail

\* serde_json::from_str: one value of the type and nothing after it.
from_str(text, fields) ==
    LET r == ParseStruct(text, fields)
    IN IF r.ok /\ r.rest = <<>> THEN Ok(r.value) ELSE Err("SerializationError")

\* event::envelope::deserialize
deserialize(text) == from_str(text, EventEnvelopeFields)

\* snapshot::envelope::deserialize
snapshot_deserialize(text) == from_str(text, SnapshotEnvelopeFields)

\* The envelopes the model serializes; event_type is what
\* TestEvent::event_type() returns.
EventEnvelopes ==
    [id : {"1740"}, aggregate_id : Strings(MaxStrLen),
     aggregate_type : Strings(1), data : TestEvent,
     event_type : {<<"TestEvent">>}, version : Versions,
     timestamp : Timestamps]
SnapshotEnvelopes ==
    [id : {"1740"}, aggregate_id : Strings(MaxStrLen),
     aggregate_type : Strings(1), data : [id : EventIds, total : Amounts],
     version : Versions, timestamp : Timestamps]

IsEventEnvelope(e) == "event_type" \in DOMAIN e

NoText == <<>>
NotRun == [kind |-> "NotRun"]
\* The consumer's deserialize returned Err: apply was not called.
NotApplied == [kind |-> "NotApplied"]

\* No envelope is on its way.
SerdeIdle ==
    /\ envelope = CHOOSE e \in EventEnvelopes : TRUE
    /\ payload = NoText
    /\ decoded = NotRun
    /\ delivered = NotRun

\* A caller holds an envelope.
SerdeInit ==
    /\ envelope \in EventEnvelopes \cup SnapshotEnvelopes
    /\ payload = NoText
    /\ decoded = NotRun
    /\ delivered = NotRun

\* event::envelope::serialize(&event_envelope)
Serialize ==
    /\ IsEventEnvelope(envelope)
    /\ payload = NoText
    /\ payload' = serialize(envelope)
    /\ UNCHANGED <<envelope, decoded, delivered>>
    /\ UNCHANGED <<consumerVars, storeVars, aggregateVars, cancelVars,
                   handlerVars, snapshotVars>>

\* event::envelope::deserialize(serialized_event_envelope)
Deserialize ==
    /\ IsEventEnvelope(envelope)
    /\ payload # NoText
    /\ decoded = NotRun
    /\ decoded' = deserialize(payload)
    /\ UNCHANGED <<envelope, payload, delivered>>
    /\ UNCHANGED <<consumerVars, storeVars, aggregateVars, cancelVars,
                   handlerVars, snapshotVars>>

\* snapshot::envelope::serialize(&snapshot_envelope)
SnapshotSerialize ==
    /\ ~IsEventEnvelope(envelope)
    /\ payload = NoText
    /\ payload' = snapshot_serialize(envelope)
    /\ UNCHANGED <<envelope, decoded, delivered>>
    /\ UNCHANGED <<consumerVars, storeVars, aggregateVars, cancelVars,
                   handlerVars, snapshotVars>>

\* snapshot::envelope::deserialize(serialized_snapshot_envelope)
SnapshotDeserialize ==
    /\ ~IsEventEnvelope(envelope)
    /\ payload # NoText
    /\ decoded = NotRun
    /\ decoded' = snapshot_deserialize(payload)
    /\ UNCHANGED <<envelope, payload, delivered>>
    /\ UNCHANGED <<consumerVars, storeVars, aggregateVars, cancelVars,
                   handlerVars, snapshotVars>>

\* The body of start_consumer's loop over the messages, for a message
\* whose value is payload: rewrite the text, deserialize it and, if that
\* returned Ok, call apply with the envelope.
ConsumerReceive ==
    /\ IsEventEnvelope(envelope)
    /\ payload # NoText
    /\ delivered = NotRun
    /\ LET event_envelope == deserialize(Preprocess(payload))
       IN delivered' = IF event_envelope.kind = "Ok"
                       THEN event_envelope.value
                       ELSE NotApplied
    /\ UNCHANGED <<envelope, payload, decoded>>
    /\ UNCHANGED <<consumerVars, storeVars, aggregateVars, cancelVars,
                   handlerVars, snapshotVars>>

SerdeNext ==
    \/ Serialize
    \/ Deserialize
    \/ SnapshotSerialize
    \/ SnapshotDeserialize
    \/ ConsumerReceive

\* C12: envelope serialization round-trips: deserialize(serialize(e))
\* succeeds and returns an envelope equal to e in every field
\* (aggregate_id, aggregate_type, event_type, version, data, id and
\* timestamp), for an EventEnvelope and for a SnapshotEnvelope.
C12_SerializeDeserializeRoundTrip ==
    decoded # NotRun => decoded = Ok(envelope)

\* C12 witness: an EventEnvelope whose aggregate_id holds a quote and a
\* backslash, whose aggregate_type is a brace and whose amount is negative
\* has been serialized and deserialized.
C12_Witness ==
    /\ IsEventEnvelope(envelope)
    /\ envelope.aggregate_id = <<Quote, Backslash>>
    /\ envelope.aggregate_type = <<LBrace>>
    /\ envelope.data.amount = MinInt
    /\ decoded.kind = "Ok"

\* C20: the consumer delivers envelopes unchanged: for a message whose
\* value is serialize(e), apply is called with an envelope equal to e in
\* every field, whatever the strings of e contain.
C20_ConsumerDeliversEnvelopeUnchanged ==
    delivered # NotRun => delivered = envelope

(***************************************************************************)
(* Specifications: one per component; the other components stay as         *)
(* constructed.                                                            *)
(***************************************************************************)

\* The stream consumer.
MoreInit == CancelInit /\ HandlerInit /\ SnapshotInit /\ SerdeIdle
Init == ConsumerInit /\ StoreInit /\ AggregateIdle /\ MoreInit
Next == ConsumerNext
Spec == Init /\ [][Next]_vars

\* The stream consumer, scheduled fairly.
FairSpec == Init /\ [][Next]_vars /\ ConsumerFairness

\* The stream consumer and a caller that asks it to stop.
CancelSpec == Init /\ [][CancelNext]_vars

\* A CommandHandler and the other writers of its aggregate.
HandlerSpec == Init /\ [][HandlerNext]_vars

\* The event store and the tasks calling it.
StoreSpecInit == ConsumerInit /\ StoreInit /\ AggregateIdle /\ MoreInit
StoreSpec == StoreSpecInit /\ [][StoreNext]_vars

\* A caller folding events into an aggregate.
AggregateSpecInit == ConsumerInit /\ StoreInit /\ AggregateInit /\ MoreInit
AggregateSpec == AggregateSpecInit /\ [][AggregateNext]_vars


\* A caller taking snapshots of a growing stream and rebuilding from them.
SnapshotSpec == AggregateSpecInit /\ [][SnapshotNext]_vars


\* Envelopes serialized, deserialized and received by the consumer.
SerdeSpecInit ==
    /\ ConsumerInit /\ StoreInit /\ AggregateIdle
    /\ CancelInit /\ HandlerInit /\ SnapshotInit /\ SerdeInit
SerdeSpec == SerdeSpecInit /\ [][SerdeNext]_vars

=============================================================================
